---- MODULE Spec2Model ----
(***************************************************************************)
(* Model of the siv crate: container::Container<T> (src/src/lib.rs) and    *)
(* ReferenceContainer<T> (src/src/reference_container.rs).                 *)
(*                                                                         *)
(* Both containers are struct-of-arrays: `id` (identity table),            *)
(* `data_index` (index table), `data` (live values) and, for the          *)
(* ReferenceContainer, `reference` (one tag per live value).  Vectors are  *)
(* modelled as TLA+ sequences; the code's 0-based positions and            *)
(* identities are kept 0-based (At(s, i) is s[i] of the code).             *)
(*                                                                         *)
(* Under Spec one run drives one container: `kind` is chosen at            *)
(* construction and selects whose operations are called; the other         *)
(* container stays empty.  Under SpecBoth every call is made on both       *)
(* containers, with the same arguments and an arbitrary tag.               *)
(***************************************************************************)
EXTENDS Integers, Sequences, FiniteSets, TLC

\* ---------------------------------------------------------------- bounds
\* The identity table never grows beyond MaxIds entries (add is not called
\* on a full container of that size).
MaxIds == 3

\* T is opaque; the payloads the calls are made with.
Values == {"a", "b"}
\* The reference tags the calls are made with.  A tag matters only through
\* its order and equality with the other tags: two tags give both ties and
\* inversions among the live elements.
Refs == {0, 1}
\* The tags asked for: those in use and one that no element carries.
QueryRefs == Refs \cup {2}
\* Identities and slot numbers passed to the calls: every one the container
\* can hold and one that it never issues.
Ids == 0..MaxIds

\* ---------------------------------------------------------- return values
Ok == "Ok"
IdNotFound == "ID not found in the container"
StaleIndex == "Data index out of bounds"
IndexOutOfBounds == "Index out of bounds"
\* The call did not return: the thread panicked.
Panic == "panic"
\* Option::None of a position or an identity (positions are never negative).
None == -1
\* Option<&T>::None of get.
NoValue == "None"

VARIABLES
    kind,           \* "Container" or "ReferenceContainer": the container in
                    \* use; "Both" when the calls are made on both
    c,              \* the Container: [data_index, id, data]
    r,              \* the ReferenceContainer: [data_index, id, data, reference]
    last,           \* the last call: its name, arguments and what it returned
    removed,        \* identities removed successfully since the last add or clear
    addRun,         \* adds since the container was last empty by construction
                    \* or clear, or None once a remove was called
    pool,           \* identities removed and not yet handed out again, the most
                    \* recently removed first; emptied by clear
    highWater,      \* the largest size() reached since construction or clear
    count,          \* successful adds minus successful removes since
                    \* construction or clear
    tagOfAdd,       \* per identity: the tag passed to the add that returned it
                    \* last, None once it is removed or was never returned
    lastRef         \* when both containers are driven by the same calls: the
                    \* ReferenceContainer's call record (last is the Container's)

vars == <<kind, c, r, last, removed, addRun, pool, highWater, count, tagOfAdd, lastRef>>

\* ------------------------------------------------------- Vec<T> primitives
\* s[i] of the code, for 0 <= i < s.len().
At(s, i) == s[i + 1]

\* i < s.len(): the bounds check behind get, get_mut, swap and indexing.
InBounds(s, i) == i >= 0 /\ i < Len(s)

\* s.iter().position(|&x| x == v): the first position holding v, or None.
position(s, v) ==
    IF \E i \in 0..(Len(s) - 1) : At(s, i) = v
    THEN CHOOSE i \in 0..(Len(s) - 1) :
            At(s, i) = v /\ \A j \in 0..(i - 1) : At(s, j) # v
    ELSE None

\* s.swap(a, b), for a and b in bounds.
swap(s, a, b) ==
    [k \in 1..Len(s) |->
        IF k = a + 1 THEN s[b + 1] ELSE IF k = b + 1 THEN s[a + 1] ELSE s[k]]

\* s.pop(): drops the last element; a no-op on an empty vector.
pop(s) == IF Len(s) = 0 THEN s ELSE SubSeq(s, 1, Len(s) - 1)

\* s[i] = v, for i in bounds.
set(s, i, v) == [s EXCEPT ![i + 1] = v]

\* ------------------------------------------------ container::Container<T>
\* Container { data_index: vec![], id: vec![], data: vec![] }
Container_new == [data_index |-> <<>>, id |-> <<>>, data |-> <<>>]

\* Container_get taking the identity for the slot: `self.data.get(id)`.
Container_get_by_slot(s, id) ==
    IF InBounds(s.data, id) THEN At(s.data, id) ELSE NoValue

\* get: Some(value) as the value, None as NoValue.
Container_get(s, id) ==
    LET index == position(s.id, id) IN
    IF index # None /\ InBounds(s.data, index) THEN At(s.data, index) ELSE NoValue

\* Container_update writing at the identity instead of at its position:
\* `self.data.get_mut(id)`.
Container_update_by_slot(s, id, new_data) ==
    LET index == position(s.id, id) IN
    IF index # None
    THEN IF InBounds(s.data, id)
         THEN [c |-> [s EXCEPT !.data = set(s.data, id, new_data)], ret |-> Ok]
         ELSE [c |-> s, ret |-> StaleIndex]
    ELSE [c |-> s, ret |-> IdNotFound]

\* Container_update with the two error branches merged: an identity whose
\* position has no value is reported as not found.
Container_update_one_error(s, id, new_data) ==
    LET index == position(s.id, id) IN
    IF index # None /\ InBounds(s.data, index)
    THEN [c |-> [s EXCEPT !.data = set(s.data, index, new_data)], ret |-> Ok]
    ELSE [c |-> s, ret |-> IdNotFound]

\* update: [c |-> the container after the call, ret |-> its result].
Container_update(s, id, new_data) ==
    LET index == position(s.id, id) IN
    IF index # None
    THEN IF InBounds(s.data, index)
         THEN [c |-> [s EXCEPT !.data = set(s.data, index, new_data)], ret |-> Ok]
         ELSE [c |-> s, ret |-> StaleIndex]
    ELSE [c |-> s, ret |-> IdNotFound]

\* Container_get_id_from_index bounded by the live range: the check is made
\* against `self.data.len()`.
Container_get_id_from_index_live(s, index) ==
    IF InBounds(s.data, index) /\ InBounds(s.id, index)
    THEN [ret |-> Ok, out |-> At(s.id, index)]
    ELSE [ret |-> IndexOutOfBounds, out |-> None]

\* get_id_from_index: [ret |-> Ok or the error, out |-> the identity or None].
Container_get_id_from_index(s, index) ==
    IF InBounds(s.id, index)
    THEN [ret |-> Ok, out |-> At(s.id, index)]
    ELSE [ret |-> IndexOutOfBounds, out |-> None]

\* Container_remove with `let last_index = self.data.len() - 1` hoisted above
\* the lookup: the subtraction (or the swap behind it) panics on an empty
\* `data` whether or not the identity is found.
Container_remove_eager_last(s, id) ==
    LET index == position(s.id, id)
        last_index == Len(s.data) - 1
    IN
    IF last_index < 0 THEN [c |-> s, ret |-> Panic]
    ELSE IF index = None THEN [c |-> s, ret |-> IdNotFound]
    ELSE IF ~InBounds(s.data, index) THEN [c |-> s, ret |-> Panic]
    ELSE
    LET s2 == [s EXCEPT !.data = swap(s.data, index, last_index),
                        !.id = swap(s.id, index, last_index)]
        s3 == [s2 EXCEPT !.data_index =
                  swap(s2.data_index, At(s2.id, index), At(s2.id, last_index))]
    IN
    [c |-> [s3 EXCEPT !.data = pop(s3.data)], ret |-> Ok]

\* Container_remove with `self.data.pop()` moved behind the if/else: a value
\* is dropped on the error path too.
Container_remove_pop_always(s, id) ==
    LET index == position(s.id, id) IN
    IF index = None THEN [c |-> [s EXCEPT !.data = pop(s.data)], ret |-> IdNotFound]
    ELSE
    LET last_index == Len(s.data) - 1 IN
    IF ~(InBounds(s.data, index) /\ InBounds(s.data, last_index))
    THEN [c |-> s, ret |-> Panic]
    ELSE
    LET s2 == [s EXCEPT !.data = swap(s.data, index, last_index),
                        !.id = swap(s.id, index, last_index)]
        s3 == [s2 EXCEPT !.data_index =
                  swap(s2.data_index, At(s2.id, index), At(s2.id, last_index))]
    IN
    [c |-> [s3 EXCEPT !.data = pop(s3.data)], ret |-> Ok]

\* Container_remove popping the identity table along with `data`: the
\* removed identity is forgotten instead of kept as a tombstone.
Container_remove_pops_id(s, id) ==
    LET index == position(s.id, id) IN
    IF index = None THEN [c |-> s, ret |-> IdNotFound]
    ELSE
    LET last_index == Len(s.data) - 1 IN
    IF ~(InBounds(s.data, index) /\ InBounds(s.data, last_index))
    THEN [c |-> s, ret |-> Panic]
    ELSE
    LET s2 == [s EXCEPT !.data = swap(s.data, index, last_index),
                        !.id = swap(s.id, index, last_index)]
        s3 == [s2 EXCEPT !.data_index =
                  swap(s2.data_index, At(s2.id, index), At(s2.id, last_index))]
    IN
    [c |-> [s3 EXCEPT !.data = pop(s3.data), !.id = pop(s3.id)], ret |-> Ok]

\* Container_remove without `self.data_index.swap(data_index_a,
\* data_index_b)`: values and identities move, the index table does not.
Container_remove_no_index_swap(s, id) ==
    LET index == position(s.id, id) IN
    IF index = None THEN [c |-> s, ret |-> IdNotFound]
    ELSE
    LET last_index == Len(s.data) - 1 IN
    IF ~(InBounds(s.data, index) /\ InBounds(s.data, last_index))
    THEN [c |-> s, ret |-> Panic]
    ELSE
    LET s2 == [s EXCEPT !.data = swap(s.data, index, last_index),
                        !.id = swap(s.id, index, last_index)]
    IN
    [c |-> [s2 EXCEPT !.data = pop(s2.data)], ret |-> Ok]

\* Container_remove without `self.id.swap(index, last_index)`: the values
\* move, the identities stay.
Container_remove_no_id_swap(s, id) ==
    LET index == position(s.id, id) IN
    IF index = None THEN [c |-> s, ret |-> IdNotFound]
    ELSE
    LET last_index == Len(s.data) - 1 IN
    IF ~(InBounds(s.data, index) /\ InBounds(s.data, last_index))
    THEN [c |-> s, ret |-> Panic]
    ELSE
    LET s1 == [s EXCEPT !.data = swap(s.data, index, last_index)] IN
    [c |-> [s1 EXCEPT !.data = pop(s1.data)], ret |-> Ok]

\* remove: [c |-> the container when the call ends, ret |-> its result].
\* `self.data.len() - 1` on an empty `data` panics where overflow checks are
\* on and wraps to usize::MAX where they are off; last_index = -1 stands for
\* the wrapped value, which no vector has in bounds, so the swap panics.
\* Vec::swap panics on a position out of bounds before it moves anything.
Container_remove(s, id) ==
    LET index == position(s.id, id) IN
    IF index = None THEN [c |-> s, ret |-> IdNotFound]
    ELSE
    LET last_index == Len(s.data) - 1 IN
    IF ~(InBounds(s.data, index) /\ InBounds(s.data, last_index))
    THEN [c |-> s, ret |-> Panic]
    ELSE
    LET s1 == [s EXCEPT !.data = swap(s.data, index, last_index)] IN
    IF ~(InBounds(s1.id, index) /\ InBounds(s1.id, last_index))
    THEN [c |-> s1, ret |-> Panic]
    ELSE
    LET s2 == [s1 EXCEPT !.id = swap(s1.id, index, last_index)]
        a == Container_get_id_from_index(s2, index)
        b == Container_get_id_from_index(s2, last_index)
    IN
    IF a.ret # Ok THEN [c |-> s2, ret |-> a.ret]
    ELSE IF b.ret # Ok THEN [c |-> s2, ret |-> b.ret]
    ELSE IF ~(InBounds(s2.data_index, a.out) /\ InBounds(s2.data_index, b.out))
    THEN [c |-> s2, ret |-> Panic]
    ELSE
    LET s3 == [s2 EXCEPT !.data_index = swap(s2.data_index, a.out, b.out)] IN
    [c |-> [s3 EXCEPT !.data = pop(s3.data)], ret |-> Ok]

\* Container_add recycling the tombstone at the end of the identity table
\* (the one removed first) instead of the one at position data.len().
Container_add_recycles_oldest(s, data) ==
    LET index == Len(s.data)
        s1 == IF Len(s.data) < Len(s.id)
              THEN [s EXCEPT !.data = Append(s.data, data),
                             !.id = swap(s.id, index, Len(s.id) - 1)]
              ELSE [s EXCEPT !.data = Append(s.data, data),
                             !.id = Append(s.id, index),
                             !.data_index = Append(s.data_index, index)]
    IN
    IF InBounds(s1.id, index)
    THEN [c |-> s1, ret |-> Ok, out |-> At(s1.id, index)]
    ELSE [c |-> s1, ret |-> Panic, out |-> None]

\* Container_add without the recycling branch: a new identity table entry is
\* pushed on every call.
Container_add_always_push(s, data) ==
    LET index == Len(s.data)
        s1 == [s EXCEPT !.data = Append(s.data, data),
                        !.id = Append(s.id, index),
                        !.data_index = Append(s.data_index, index)]
    IN
    IF InBounds(s1.id, index)
    THEN [c |-> s1, ret |-> Ok, out |-> At(s1.id, index)]
    ELSE [c |-> s1, ret |-> Panic, out |-> None]

\* Container_add issuing `self.data.len()` read after the push: the new
\* identity is one more than the slot it names.
Container_add_len_after_push(s, data) ==
    LET index == Len(s.data)
        s1 == IF Len(s.data) < Len(s.id)
              THEN [s EXCEPT !.data = Append(s.data, data)]
              ELSE [s EXCEPT !.data = Append(s.data, data),
                             !.id = Append(s.id, index + 1),
                             !.data_index = Append(s.data_index, index + 1)]
    IN
    IF InBounds(s1.id, index)
    THEN [c |-> s1, ret |-> Ok, out |-> At(s1.id, index)]
    ELSE [c |-> s1, ret |-> Panic, out |-> None]

\* Container_add returning the slot it filled instead of the identity
\* stored at that slot.
Container_add_returns_index(s, data) ==
    LET index == Len(s.data)
        s1 == IF Len(s.data) < Len(s.id)
              THEN [s EXCEPT !.data = Append(s.data, data)]
              ELSE [s EXCEPT !.data = Append(s.data, data),
                             !.id = Append(s.id, index),
                             !.data_index = Append(s.data_index, index)]
    IN
    [c |-> s1, ret |-> Ok, out |-> index]

\* add: [c |-> the container after the call, ret |-> Ok, or Panic when the
\* final expect fails, out |-> the identity returned].
Container_add(s, data) ==
    LET index == Len(s.data)
        s1 == IF Len(s.data) < Len(s.id)
              THEN [s EXCEPT !.data = Append(s.data, data)]
              ELSE [s EXCEPT !.data = Append(s.data, data),
                             !.id = Append(s.id, index),
                             !.data_index = Append(s.data_index, index)]
    IN
    IF InBounds(s1.id, index)
    THEN [c |-> s1, ret |-> Ok, out |-> At(s1.id, index)]
    ELSE [c |-> s1, ret |-> Panic, out |-> None]

\* Container_size counting the identity table, tombstones included:
\* `self.id.len()`.
Container_size_of_id(s) == Len(s.id)

Container_size(s) == Len(s.data)

Container_empty(s) == Len(s.data) = 0

\* Container_clear emptying `data` alone: the identity and index tables, and
\* with them the tombstones, survive.
Container_clear_data_only(s) == [s EXCEPT !.data = <<>>]

Container_clear(s) == [s EXCEPT !.data = <<>>, !.id = <<>>, !.data_index = <<>>]

\* --------------------------------------------------- ReferenceContainer<T>
\* ReferenceContainer::new()
ReferenceContainer_new ==
    [data_index |-> <<>>, id |-> <<>>, data |-> <<>>, reference |-> <<>>]

\* get: Some(value) as the value, None as NoValue.
ReferenceContainer_get(s, id) ==
    LET index == position(s.id, id) IN
    IF index # None /\ InBounds(s.data, index) THEN At(s.data, index) ELSE NoValue

\* update: [c |-> the container after the call, ret |-> its result].
ReferenceContainer_update(s, id, new_data) ==
    LET index == position(s.id, id) IN
    IF index # None
    THEN IF InBounds(s.data, index)
         THEN [c |-> [s EXCEPT !.data = set(s.data, index, new_data)], ret |-> Ok]
         ELSE [c |-> s, ret |-> StaleIndex]
    ELSE [c |-> s, ret |-> IdNotFound]

\* get_id_from_index: [ret |-> Ok or the error, out |-> the identity or None].
ReferenceContainer_get_id_from_index(s, index) ==
    IF InBounds(s.id, index)
    THEN [ret |-> Ok, out |-> At(s.id, index)]
    ELSE [ret |-> IndexOutOfBounds, out |-> None]

\* The loop of get_ids_from_reference over reference[i..]: the identities at
\* the positions whose tag is `reference`, in position order.
RECURSIVE ids_from(_, _, _)
ids_from(s, reference, i) ==
    IF i >= Len(s.reference) THEN <<>>
    ELSE IF At(s.reference, i) = reference /\ InBounds(s.id, i)
         THEN <<At(s.id, i)>> \o ids_from(s, reference, i + 1)
         ELSE ids_from(s, reference, i + 1)

\* get_ids_from_reference: [some |-> FALSE] for None, else the identities.
ReferenceContainer_get_ids_from_reference(s, reference) ==
    LET ids == ids_from(s, reference, 0) IN
    IF ids = <<>> THEN [some |-> FALSE, ids |-> <<>>]
    ELSE [some |-> TRUE, ids |-> ids]

\* ReferenceContainer_swap without `self.reference.swap(index_a, index_b)`:
\* the values and identities change slots, the tags stay where they were.
ReferenceContainer_swap_no_reference(s, index_a, index_b) ==
    IF ~(InBounds(s.data, index_a) /\ InBounds(s.data, index_b))
    THEN [c |-> s, ret |-> Panic]
    ELSE
    LET s1 == [s EXCEPT !.data = swap(s.data, index_a, index_b)] IN
    IF ~(InBounds(s1.id, index_a) /\ InBounds(s1.id, index_b))
    THEN [c |-> s1, ret |-> Panic]
    ELSE
    LET s3 == [s1 EXCEPT !.id = swap(s1.id, index_a, index_b)]
        a == ReferenceContainer_get_id_from_index(s3, index_a)
        b == ReferenceContainer_get_id_from_index(s3, index_b)
    IN
    IF a.ret # Ok THEN [c |-> s3, ret |-> a.ret]
    ELSE IF b.ret # Ok THEN [c |-> s3, ret |-> b.ret]
    ELSE IF ~(InBounds(s3.data_index, a.out) /\ InBounds(s3.data_index, b.out))
    THEN [c |-> s3, ret |-> Panic]
    ELSE [c |-> [s3 EXCEPT !.data_index = swap(s3.data_index, a.out, b.out)],
          ret |-> Ok]

\* ReferenceContainer_swap without `self.data_index.swap(..)`: the index
\* table is left as it was.
ReferenceContainer_swap_no_index(s, index_a, index_b) ==
    IF ~(InBounds(s.data, index_a) /\ InBounds(s.data, index_b))
    THEN [c |-> s, ret |-> Panic]
    ELSE
    LET s1 == [s EXCEPT !.data = swap(s.data, index_a, index_b)] IN
    IF ~(InBounds(s1.id, index_a) /\ InBounds(s1.id, index_b))
    THEN [c |-> s1, ret |-> Panic]
    ELSE
    LET s2 == [s1 EXCEPT !.id = swap(s1.id, index_a, index_b)] IN
    IF ~(InBounds(s2.reference, index_a) /\ InBounds(s2.reference, index_b))
    THEN [c |-> s2, ret |-> Panic]
    ELSE
    LET s3 == [s2 EXCEPT !.reference = swap(s2.reference, index_a, index_b)]
        a == ReferenceContainer_get_id_from_index(s3, index_a)
        b == ReferenceContainer_get_id_from_index(s3, index_b)
    IN
    IF a.ret # Ok THEN [c |-> s3, ret |-> a.ret]
    ELSE IF b.ret # Ok THEN [c |-> s3, ret |-> b.ret]
    ELSE [c |-> s3, ret |-> Ok]

\* swap: [c |-> the container when the call ends, ret |-> its result].
\* Vec::swap panics on a position out of bounds before it moves anything.
ReferenceContainer_swap(s, index_a, index_b) ==
    IF ~(InBounds(s.data, index_a) /\ InBounds(s.data, index_b))
    THEN [c |-> s, ret |-> Panic]
    ELSE
    LET s1 == [s EXCEPT !.data = swap(s.data, index_a, index_b)] IN
    IF ~(InBounds(s1.id, index_a) /\ InBounds(s1.id, index_b))
    THEN [c |-> s1, ret |-> Panic]
    ELSE
    LET s2 == [s1 EXCEPT !.id = swap(s1.id, index_a, index_b)] IN
    IF ~(InBounds(s2.reference, index_a) /\ InBounds(s2.reference, index_b))
    THEN [c |-> s2, ret |-> Panic]
    ELSE
    LET s3 == [s2 EXCEPT !.reference = swap(s2.reference, index_a, index_b)]
        a == ReferenceContainer_get_id_from_index(s3, index_a)
        b == ReferenceContainer_get_id_from_index(s3, index_b)
    IN
    IF a.ret # Ok THEN [c |-> s3, ret |-> a.ret]
    ELSE IF b.ret # Ok THEN [c |-> s3, ret |-> b.ret]
    ELSE IF ~(InBounds(s3.data_index, a.out) /\ InBounds(s3.data_index, b.out))
    THEN [c |-> s3, ret |-> Panic]
    ELSE [c |-> [s3 EXCEPT !.data_index = swap(s3.data_index, a.out, b.out)],
          ret |-> Ok]

\* ReferenceContainer_remove without `self.reference.pop()`: the tag of the
\* removed element stays behind the live range.
ReferenceContainer_remove_keeps_reference(s, id) ==
    LET index == position(s.id, id) IN
    IF index = None THEN [c |-> s, ret |-> IdNotFound]
    ELSE
    LET last_index == Len(s.data) - 1
        swapped == ReferenceContainer_swap(s, index, last_index)
    IN
    IF swapped.ret # Ok THEN swapped
    ELSE [c |-> [swapped.c EXCEPT !.data = pop(swapped.c.data)], ret |-> Ok]

\* remove: [c |-> the container when the call ends, ret |-> its result].
\* `self.data.len() - 1` on an empty `data`: see Container_remove.
ReferenceContainer_remove(s, id) ==
    LET index == position(s.id, id) IN
    IF index = None THEN [c |-> s, ret |-> IdNotFound]
    ELSE
    LET last_index == Len(s.data) - 1
        swapped == ReferenceContainer_swap(s, index, last_index)
    IN
    IF swapped.ret # Ok THEN swapped
    ELSE [c |-> [swapped.c EXCEPT !.data = pop(swapped.c.data),
                                  !.reference = pop(swapped.c.reference)],
          ret |-> Ok]

\* add: [c |-> the container after the call, ret |-> Ok, or Panic when the
\* final expect fails, out |-> the identity returned].
ReferenceContainer_add(s, data, reference) ==
    LET index == Len(s.data)
        s1 == IF Len(s.data) < Len(s.id)
              THEN [s EXCEPT !.data = Append(s.data, data),
                             !.reference = Append(s.reference, reference)]
              ELSE [s EXCEPT !.data = Append(s.data, data),
                             !.id = Append(s.id, index),
                             !.data_index = Append(s.data_index, index),
                             !.reference = Append(s.reference, reference)]
    IN
    IF InBounds(s1.id, index)
    THEN [c |-> s1, ret |-> Ok, out |-> At(s1.id, index)]
    ELSE [c |-> s1, ret |-> Panic, out |-> None]

ReferenceContainer_size(s) == Len(s.data)

ReferenceContainer_empty(s) == Len(s.data) = 0

ReferenceContainer_clear(s) ==
    [s EXCEPT !.data = <<>>, !.id = <<>>, !.data_index = <<>>, !.reference = <<>>]

\* The first loop of sort over i in i..id.len(): the tuples (id, old index,
\* data, reference) of the positions that have all three.
RECURSIVE combined_from(_, _)
combined_from(s, i) ==
    IF i >= Len(s.id) THEN <<>>
    ELSE IF InBounds(s.id, i) /\ InBounds(s.data, i) /\ InBounds(s.reference, i)
         THEN <<[id |-> At(s.id, i), old_index |-> i, data |-> At(s.data, i),
                 reference |-> At(s.reference, i)]>> \o combined_from(s, i + 1)
         ELSE combined_from(s, i + 1)

\* insert_by_key of an unstable sort: x goes in front of the elements whose
\* key equals its own.
RECURSIVE insert_by_key_before_ties(_, _)
insert_by_key_before_ties(sorted, x) ==
    IF sorted = <<>> THEN <<x>>
    ELSE IF Head(sorted).reference < x.reference
         THEN <<Head(sorted)>> \o insert_by_key_before_ties(Tail(sorted), x)
         ELSE <<x>> \o sorted

\* One insertion of a stable sort: x goes behind every element whose key is
\* not greater than its own.
RECURSIVE insert_by_key(_, _)
insert_by_key(sorted, x) ==
    IF sorted = <<>> THEN <<x>>
    ELSE IF Head(sorted).reference <= x.reference
         THEN <<Head(sorted)>> \o insert_by_key(Tail(sorted), x)
         ELSE <<x>> \o sorted

\* combined.sort_by_key(|k| k.3): slice::sort_by_key is a stable sort.
RECURSIVE sort_by_key(_)
sort_by_key(combined) ==
    IF combined = <<>> THEN <<>>
    ELSE insert_by_key(sort_by_key(SubSeq(combined, 1, Len(combined) - 1)),
                       combined[Len(combined)])

\* sort_write without `self.data[new_index] = data`: identities and tags
\* move, the values stay where they were.
RECURSIVE sort_write_no_data(_, _, _)
sort_write_no_data(s, combined, new_index) ==
    IF new_index >= Len(combined) THEN [c |-> s, ret |-> Ok]
    ELSE
    LET k == At(combined, new_index) IN
    IF ~(InBounds(s.id, new_index) /\ InBounds(s.reference, new_index))
    THEN [c |-> s, ret |-> Panic]
    ELSE
    LET s1 == [s EXCEPT !.id = set(s.id, new_index, k.id),
                        !.reference = set(s.reference, new_index, k.reference)]
    IN
    IF ~InBounds(s1.data_index, k.id) THEN [c |-> s1, ret |-> Panic]
    ELSE sort_write_no_data(
            [s1 EXCEPT !.data_index = set(s1.data_index, k.id, new_index)],
            combined, new_index + 1)

\* The second loop of sort from new_index on: indexing panics on a position
\* out of bounds, with the earlier iterations already written.
RECURSIVE sort_write(_, _, _)
sort_write(s, combined, new_index) ==
    IF new_index >= Len(combined) THEN [c |-> s, ret |-> Ok]
    ELSE
    LET k == At(combined, new_index) IN
    IF ~(InBounds(s.id, new_index) /\ InBounds(s.data, new_index)
            /\ InBounds(s.reference, new_index))
    THEN [c |-> s, ret |-> Panic]
    ELSE
    LET s1 == [s EXCEPT !.id = set(s.id, new_index, k.id),
                        !.data = set(s.data, new_index, k.data),
                        !.reference = set(s.reference, new_index, k.reference)]
    IN
    IF ~InBounds(s1.data_index, k.id) THEN [c |-> s1, ret |-> Panic]
    ELSE sort_write([s1 EXCEPT !.data_index = set(s1.data_index, k.id, new_index)],
                    combined, new_index + 1)

\* ReferenceContainer_sort rebuilding the identity table from the sorted
\* tuples alone: the entries behind the live range are dropped.
ReferenceContainer_sort_rebuild(s) ==
    LET res == sort_write(s, sort_by_key(combined_from(s, 0)), 0) IN
    [c |-> [res.c EXCEPT !.id = SubSeq(res.c.id, 1, Len(res.c.data))],
     ret |-> res.ret]

\* sort: [c |-> the container when the call ends, ret |-> Ok or Panic].
ReferenceContainer_sort(s) ==
    sort_write(s, sort_by_key(combined_from(s, 0)), 0)

\* ------------------------------------------------------------- the calls
\* The record of a call: op its name, id/val/ref its arguments (None, NoValue
\* where it has none), ret its result (for empty: "true" or "false"), out
\* the identity or the count returned (for sort, which returns nothing: the
\* number of slots whose identity it changed; for clear, which returns
\* nothing: the number of tombstones it discarded), outVal the value returned.
Call(op, id, val, ref, ret, out, outVal) ==
    [op |-> op, id |-> id, val |-> val, ref |-> ref, ret |-> ret, out |-> out,
     outVal |-> outVal]

\* A panic ends the run: nothing is called on the container afterwards.
Running == last.ret # Panic

Init ==
    /\ kind \in {"Container", "ReferenceContainer"}
    /\ c = Container_new
    /\ r = ReferenceContainer_new
    /\ last = Call("new", None, NoValue, None, Ok, None, NoValue)
    /\ removed = {}
    /\ addRun = 0
    /\ pool = <<>>
    /\ highWater = 0
    /\ count = 0
    /\ tagOfAdd = [id \in Ids |-> None]
    /\ lastRef = Call("new", None, NoValue, None, Ok, None, NoValue)

\* container.add(data)
CAdd(data) ==
    /\ Running /\ kind = "Container"
    /\ Len(c.data) < MaxIds
    /\ LET res == Container_add(c, data) IN
        /\ c' = res.c
        /\ last' = Call("add", None, data, None, res.ret, res.out, NoValue)
        /\ count' = IF res.ret = Ok THEN count + 1 ELSE count
        /\ highWater' = IF Len(res.c.data) > highWater THEN Len(res.c.data)
                        ELSE highWater
    /\ removed' = {}
    /\ addRun' = IF addRun = None THEN None ELSE addRun + 1
    /\ pool' = IF pool = <<>> THEN pool ELSE Tail(pool)
    /\ UNCHANGED <<kind, r, tagOfAdd, lastRef>>

\* container.remove(id)
CRemove(id) ==
    /\ Running /\ kind = "Container"
    /\ LET res == Container_remove(c, id) IN
        /\ c' = res.c
        /\ last' = Call("remove", id, NoValue, None, res.ret, None, NoValue)
        /\ removed' = IF res.ret = Ok THEN removed \cup {id} ELSE removed
        /\ pool' = IF res.ret = Ok THEN <<id>> \o pool ELSE pool
        /\ count' = IF res.ret = Ok THEN count - 1 ELSE count
    /\ addRun' = None
    /\ UNCHANGED <<kind, r, highWater, tagOfAdd, lastRef>>

\* container.update(id, new_data)
CUpdate(id, new_data) ==
    /\ Running /\ kind = "Container"
    /\ LET res == Container_update(c, id, new_data) IN
        /\ c' = res.c
        /\ last' = Call("update", id, new_data, None, res.ret, None, NoValue)
    /\ UNCHANGED <<kind, r, removed, addRun, pool, highWater, count, tagOfAdd, lastRef>>

\* container.get(id)
CGet(id) ==
    /\ Running /\ kind = "Container"
    /\ LET v == Container_get(c, id) IN
        last' = Call("get", id, NoValue, None,
                     IF v = NoValue THEN "None" ELSE "Some", None, v)
    /\ UNCHANGED <<kind, c, r, removed, addRun, pool, highWater, count, tagOfAdd, lastRef>>

\* container.get_id_from_index(index)
CGetIdFromIndex(index) ==
    /\ Running /\ kind = "Container"
    /\ LET res == Container_get_id_from_index(c, index) IN
        last' = Call("get_id_from_index", index, NoValue, None, res.ret, res.out,
                     NoValue)
    /\ UNCHANGED <<kind, c, r, removed, addRun, pool, highWater, count, tagOfAdd, lastRef>>

\* container.size()
CSize ==
    /\ Running /\ kind = "Container"
    /\ last' = Call("size", None, NoValue, None, Ok, Container_size(c), NoValue)
    /\ UNCHANGED <<kind, c, r, removed, addRun, pool, highWater, count, tagOfAdd, lastRef>>

\* container.empty()
CEmpty ==
    /\ Running /\ kind = "Container"
    /\ last' = Call("empty", None, NoValue, None,
                    IF Container_empty(c) THEN "true" ELSE "false", None, NoValue)
    /\ UNCHANGED <<kind, c, r, removed, addRun, pool, highWater, count, tagOfAdd, lastRef>>

\* container.clear()
CClear ==
    /\ Running /\ kind = "Container"
    /\ c' = Container_clear(c)
    /\ last' = Call("clear", None, NoValue, None, Ok, Len(c.id) - Len(c.data),
                    NoValue)
    /\ removed' = {}
    /\ addRun' = 0
    /\ pool' = <<>>
    /\ highWater' = 0
    /\ count' = 0
    /\ UNCHANGED <<kind, r, tagOfAdd, lastRef>>

\* reference_container.add(data, reference)
RAdd(data, reference) ==
    /\ Running /\ kind = "ReferenceContainer"
    /\ Len(r.data) < MaxIds
    /\ LET res == ReferenceContainer_add(r, data, reference) IN
        /\ r' = res.c
        /\ last' = Call("add", None, data, reference, res.ret, res.out, NoValue)
        /\ tagOfAdd' = IF res.ret = Ok
                       THEN [tagOfAdd EXCEPT ![res.out] = reference]
                       ELSE tagOfAdd
        /\ count' = IF res.ret = Ok THEN count + 1 ELSE count
        /\ highWater' = IF Len(res.c.data) > highWater THEN Len(res.c.data)
                        ELSE highWater
    /\ removed' = {}
    /\ addRun' = IF addRun = None THEN None ELSE addRun + 1
    /\ pool' = IF pool = <<>> THEN pool ELSE Tail(pool)
    /\ UNCHANGED <<kind, c, lastRef>>

\* reference_container.remove(id)
RRemove(id) ==
    /\ Running /\ kind = "ReferenceContainer"
    /\ LET res == ReferenceContainer_remove(r, id) IN
        /\ r' = res.c
        /\ tagOfAdd' = IF res.ret = Ok THEN [tagOfAdd EXCEPT ![id] = None]
                       ELSE tagOfAdd
        /\ last' = Call("remove", id, NoValue, None, res.ret, None, NoValue)
        /\ removed' = IF res.ret = Ok THEN removed \cup {id} ELSE removed
        /\ pool' = IF res.ret = Ok THEN <<id>> \o pool ELSE pool
        /\ count' = IF res.ret = Ok THEN count - 1 ELSE count
    /\ addRun' = None
    /\ UNCHANGED <<kind, c, highWater, lastRef>>

\* reference_container.update(id, new_data)
RUpdate(id, new_data) ==
    /\ Running /\ kind = "ReferenceContainer"
    /\ LET res == ReferenceContainer_update(r, id, new_data) IN
        /\ r' = res.c
        /\ last' = Call("update", id, new_data, None, res.ret, None, NoValue)
    /\ UNCHANGED <<kind, c, removed, addRun, pool, highWater, count, tagOfAdd, lastRef>>

\* reference_container.get(id)
RGet(id) ==
    /\ Running /\ kind = "ReferenceContainer"
    /\ LET v == ReferenceContainer_get(r, id) IN
        last' = Call("get", id, NoValue, None,
                     IF v = NoValue THEN "None" ELSE "Some", None, v)
    /\ UNCHANGED <<kind, c, r, removed, addRun, pool, highWater, count, tagOfAdd, lastRef>>

\* reference_container.get_id_from_index(index)
RGetIdFromIndex(index) ==
    /\ Running /\ kind = "ReferenceContainer"
    /\ LET res == ReferenceContainer_get_id_from_index(r, index) IN
        last' = Call("get_id_from_index", index, NoValue, None, res.ret, res.out,
                     NoValue)
    /\ UNCHANGED <<kind, c, r, removed, addRun, pool, highWater, count, tagOfAdd, lastRef>>

\* reference_container.get_ids_from_reference(reference); out is the number
\* of identities returned.
RGetIdsFromReference(reference) ==
    /\ Running /\ kind = "ReferenceContainer"
    /\ LET res == ReferenceContainer_get_ids_from_reference(r, reference) IN
        last' = Call("get_ids_from_reference", None, NoValue, reference,
                     IF res.some THEN "Some" ELSE "None", Len(res.ids), NoValue)
    /\ UNCHANGED <<kind, c, r, removed, addRun, pool, highWater, count, tagOfAdd, lastRef>>

\* reference_container.size()
RSize ==
    /\ Running /\ kind = "ReferenceContainer"
    /\ last' = Call("size", None, NoValue, None, Ok, ReferenceContainer_size(r),
                    NoValue)
    /\ UNCHANGED <<kind, c, r, removed, addRun, pool, highWater, count, tagOfAdd, lastRef>>

\* reference_container.empty()
REmpty ==
    /\ Running /\ kind = "ReferenceContainer"
    /\ last' = Call("empty", None, NoValue, None,
                    IF ReferenceContainer_empty(r) THEN "true" ELSE "false", None,
                    NoValue)
    /\ UNCHANGED <<kind, c, r, removed, addRun, pool, highWater, count, tagOfAdd, lastRef>>

\* reference_container.clear()
RClear ==
    /\ Running /\ kind = "ReferenceContainer"
    /\ r' = ReferenceContainer_clear(r)
    /\ last' = Call("clear", None, NoValue, None, Ok, Len(r.id) - Len(r.data),
                    NoValue)
    /\ removed' = {}
    /\ addRun' = 0
    /\ pool' = <<>>
    /\ highWater' = 0
    /\ count' = 0
    /\ tagOfAdd' = [id \in Ids |-> None]
    /\ UNCHANGED <<kind, c, lastRef>>

\* The number of slots of s whose identity differs in s2.
Moved(s, s2) ==
    Cardinality({i \in 0..(Len(s.id) - 1) :
                    ~InBounds(s2.id, i) \/ At(s.id, i) # At(s2.id, i)})

\* reference_container.sort()
RSort ==
    /\ Running /\ kind = "ReferenceContainer"
    /\ LET res == ReferenceContainer_sort(r) IN
        /\ r' = res.c
        /\ last' = Call("sort", None, NoValue, None, res.ret, Moved(r, res.c),
                        NoValue)
    /\ UNCHANGED <<kind, c, removed, addRun, pool, highWater, count, tagOfAdd, lastRef>>

Next ==
    \/ \E data \in Values : CAdd(data)
    \/ \E id \in Ids : CRemove(id)
    \/ \E id \in Ids, new_data \in Values : CUpdate(id, new_data)
    \/ \E id \in Ids : CGet(id)
    \/ \E index \in Ids : CGetIdFromIndex(index)
    \/ CSize
    \/ CEmpty
    \/ CClear
    \/ \E data \in Values, reference \in Refs : RAdd(data, reference)
    \/ \E id \in Ids : RRemove(id)
    \/ \E id \in Ids, new_data \in Values : RUpdate(id, new_data)
    \/ \E id \in Ids : RGet(id)
    \/ \E index \in Ids : RGetIdFromIndex(index)
    \/ \E reference \in QueryRefs : RGetIdsFromReference(reference)
    \/ RSize
    \/ REmpty
    \/ RClear
    \/ RSort

Spec == Init /\ [][Next]_vars

\* ------------------------------------------------- the container in use
\* The fields of the container the run drives.
Cur == IF kind = "Container" THEN c ELSE r

\* get(id), update(id, new_data) and remove(id) on the container in use.
Get(id) ==
    IF kind = "Container" THEN Container_get(c, id) ELSE ReferenceContainer_get(r, id)

Update(id, new_data) ==
    IF kind = "Container" THEN Container_update(c, id, new_data)
    ELSE ReferenceContainer_update(r, id, new_data)

Remove(id) ==
    IF kind = "Container" THEN Container_remove(c, id)
    ELSE ReferenceContainer_remove(r, id)

\* size() and identityCount: the lengths of `data` and of the identity table.
liveCount == Len(Cur.data)
identityCount == Len(Cur.id)

\* The identities stored at the slots below liveCount, and those behind
\* them (the tombstones).
LiveIdsOf(s) == {At(s.id, i) : i \in {j \in 0..(Len(s.id) - 1) : j < Len(s.data)}}
TombstonesOf(s) == {At(s.id, i) : i \in {j \in 0..(Len(s.id) - 1) : j >= Len(s.data)}}
LiveIds == LiveIdsOf(Cur)

\* The reference tag at the slot of identity id, None if it has none.
TagOf(s, id) ==
    LET index == position(s.id, id) IN
    IF index # None /\ InBounds(s.reference, index) THEN At(s.reference, index)
    ELSE None

\* id occurs nowhere in the identity table.
NeverIssued(id) == \A i \in 0..(Len(Cur.id) - 1) : At(Cur.id, i) # id

\* ------------------------------------------------------------- the claims

\* C1: identity stability.  A successful remove(i), a successful update(i, v)
\* and an add(v) leave get(j) as it was, for every live identity j other
\* than i.
C1_IdentityStability ==
    [][\A j \in Ids :
        (/\ j \in LiveIds
         /\ \/ last'.op = "remove" /\ last'.ret = Ok /\ last'.id # j
            \/ last'.op = "update" /\ last'.ret = Ok /\ last'.id # j
            \/ last'.op = "add")
        => Get(j)' = Get(j)]_vars

\* A remove has just moved a live identity out of the slot whose number it
\* was issued with.
C1_Witness ==
    /\ last.op = "remove" /\ last.ret = Ok
    /\ \E j \in LiveIds : position(Cur.id, j) # j /\ Get(j) # NoValue

\* C2: an identity removed since the last add (or clear) yields None from get
\* and StaleIndex from update; an identity that is nowhere in the identity
\* table yields IdNotFound from update; the two errors differ.
C2_RemovedIsStale ==
    /\ \A id \in removed :
        /\ Get(id) = NoValue
        /\ \A v \in Values : Update(id, v).ret = StaleIndex
    /\ \A id \in Ids :
        NeverIssued(id) => \A v \in Values : Update(id, v).ret = IdNotFound
    /\ StaleIndex # IdNotFound

\* Two identities were removed in a row and a live one remains.
C2_Witness ==
    /\ last.op = "remove" /\ last.ret = Ok
    /\ Cardinality(removed) >= 2 /\ liveCount >= 1

\* C3: tombstone recycling.  An add that directly follows a successful
\* remove(id) returns id, and get(id) is then the value added.
C3_Recycle ==
    [][\A id \in Ids :
        (last.op = "remove" /\ last.ret = Ok /\ last.id = id /\ last'.op = "add")
        => (last'.ret = Ok /\ last'.out = id /\ Get(id)' = last'.val)]_vars

\* An add returned an identity that is not the number of the slot it filled:
\* a recycled one.
C3_Witness ==
    /\ last.op = "add" /\ last.ret = Ok
    /\ last.out # liveCount - 1
    /\ removed = {}

\* C4: remove(id) of an identity with no live slot (get(id) is None before
\* the call), a tombstone included, returns IdNotFound and leaves the
\* container as it was.
C4_RemoveNotLiveFails ==
    [][\A id \in Ids :
        (last'.op = "remove" /\ last'.id = id /\ Get(id) = NoValue)
        => (last'.ret = IdNotFound /\ c' = c /\ r' = r)]_vars

\* C5: remove(id) of an identity that is nowhere in the identity table
\* returns IdNotFound, in every reachable state.
C5_RemoveNeverIssued ==
    \A id \in Ids : NeverIssued(id) => Remove(id).ret = IdNotFound

\* remove was called with an identity the table does not hold, on a
\* container with live elements and tombstones, and returned IdNotFound.
C5_Witness ==
    /\ last.op = "remove" /\ last.ret = IdNotFound /\ NeverIssued(last.id)
    /\ liveCount >= 1 /\ identityCount > liveCount

\* C6: a call that returns an error leaves every table of the container as
\* it was.
C6_NoPartialMutation ==
    [][last'.ret \in {IdNotFound, StaleIndex, IndexOutOfBounds}
        => (c' = c /\ r' = r)]_vars

\* update was refused with StaleIndex on a container with live elements.
C6_Witness ==
    /\ last.op = "update" /\ last.ret = StaleIndex
    /\ liveCount >= 1

\* C7: right after add(v) returned id, get(id) is Some(v).
C7_GetAfterAdd ==
    last.op = "add" => (last.ret = Ok /\ Get(last.out) = last.val)

\* An add recycled an identity while further tombstones remain.
C7_Witness ==
    /\ last.op = "add" /\ last.ret = Ok
    /\ Get(last.out) = last.val
    /\ last.out # liveCount - 1
    /\ identityCount > liveCount

\* C8: the k-th add (k = 0, 1, ...) of a run of adds on a container that was
\* empty by construction or clear, with no remove called in between,
\* returns identity k.
C8_FreshIdsCountUp ==
    (last.op = "add" /\ addRun # None) => last.out = addRun - 1

\* The third add of such a run returned identity 2.
C8_Witness ==
    /\ last.op = "add" /\ addRun = 3 /\ last.out = 2

\* C9: sort leaves the reference tags non-decreasing in slot order, keeps the
\* set of live identities, and keeps every live identity's value and tag.
C9_SortOrdersByTag ==
    [][last'.op = "sort" =>
        /\ last'.ret = Ok
        /\ Len(r'.reference) = Len(r'.data)
        /\ \A i \in 0..(Len(r'.reference) - 2) :
            At(r'.reference, i) <= At(r'.reference, i + 1)
        /\ LiveIdsOf(r') = LiveIdsOf(r)
        /\ \A id \in LiveIdsOf(r) :
            /\ ReferenceContainer_get(r', id) = ReferenceContainer_get(r, id)
            /\ TagOf(r', id) = TagOf(r, id)]_vars

\* A sort of three live elements moved at least two of them.
C9_Witness ==
    /\ last.op = "sort" /\ last.ret = Ok
    /\ last.out >= 2 /\ Len(r.data) = 3

\* C10: sort changes neither liveCount nor identityCount nor an identity
\* table entry at a position >= liveCount; the identity the next add returns
\* is the one it would have returned without the sort, and the tombstones
\* still yield None from get and StaleIndex from update.
C10_SortKeepsTombstones ==
    [][last'.op = "sort" =>
        /\ Len(r'.data) = Len(r.data)
        /\ Len(r'.id) = Len(r.id)
        /\ \A i \in Len(r.data)..(Len(r.id) - 1) : At(r'.id, i) = At(r.id, i)
        /\ \A v \in Values, ref \in Refs :
            ReferenceContainer_add(r', v, ref).out = ReferenceContainer_add(r, v, ref).out
        /\ \A id \in TombstonesOf(r) :
            /\ ReferenceContainer_get(r', id) = NoValue
            /\ \A v \in Values : ReferenceContainer_update(r', id, v).ret = StaleIndex]_vars

\* A sort moved live elements while a tombstone was waiting behind them.
C10_Witness ==
    /\ last.op = "sort" /\ last.ret = Ok
    /\ last.out >= 2
    /\ Len(r.id) > Len(r.data)

\* C11: sort is stable.  Two live elements with equal tags keep their
\* relative slot order, so get_ids_from_reference(tag) returns the same
\* sequence before and after a sort, for every tag.
C11_SortIsStable ==
    [][last'.op = "sort" =>
        /\ \A a \in LiveIdsOf(r), b \in LiveIdsOf(r) :
            (TagOf(r, a) = TagOf(r, b) /\ position(r.id, a) < position(r.id, b))
            => position(r'.id, a) < position(r'.id, b)
        /\ \A tag \in QueryRefs :
            ReferenceContainer_get_ids_from_reference(r', tag)
                = ReferenceContainer_get_ids_from_reference(r, tag)]_vars

\* A sort moved elements and left two elements with the same tag in
\* neighbouring slots.
C11_Witness ==
    /\ last.op = "sort" /\ last.ret = Ok /\ last.out >= 2
    /\ \E i \in 0..(Len(r.reference) - 2) :
        At(r.reference, i) = At(r.reference, i + 1)

\* The live identities of the ReferenceContainer whose tag is `tag`.
Matching(tag) == {id \in LiveIdsOf(r) : TagOf(r, id) = tag}

\* C12: get_ids_from_reference(tag) returns exactly the live identities whose
\* tag is `tag`, each once, in slot order and with no tombstone among them;
\* it returns None exactly when there is none.
C12_IdsForReference ==
    \A tag \in QueryRefs :
        LET res == ReferenceContainer_get_ids_from_reference(r, tag) IN
        /\ res.some <=> Matching(tag) # {}
        /\ {res.ids[k] : k \in 1..Len(res.ids)} = Matching(tag)
        /\ Len(res.ids) = Cardinality(Matching(tag))
        /\ \A k \in 1..Len(res.ids), l \in 1..Len(res.ids) :
            k < l => position(r.id, res.ids[k]) < position(r.id, res.ids[l])
        /\ \A k \in 1..Len(res.ids) : res.ids[k] \notin TombstonesOf(r)

\* The call returned two identities, the larger one first, while a tombstone
\* sits behind the live range.
C12_Witness ==
    /\ last.op = "get_ids_from_reference" /\ last.ret = "Some" /\ last.out = 2
    /\ Len(r.id) > Len(r.data)
    /\ At(r.id, 0) > At(r.id, 1)

\* size() and empty() of the container in use.
Size == IF kind = "Container" THEN Container_size(c) ELSE ReferenceContainer_size(r)
Empty == IF kind = "Container" THEN Container_empty(c) ELSE ReferenceContainer_empty(r)

\* C13: size() is the number of successful adds minus the number of
\* successful removes since construction or the last clear (failed calls
\* count for nothing), and empty() is true exactly when size() is 0.
C13_SizeIsLiveCount ==
    /\ Size = count
    /\ Empty <=> (Size = 0)
    /\ last.op = "size" => last.out = count
    /\ last.op = "empty" => (last.ret = "true" <=> count = 0)

\* size() returned 2 on a container that holds a tombstone.
C13_Witness ==
    /\ last.op = "size" /\ last.out = 2
    /\ identityCount = 3

\* C14: right after clear() the container is empty, every identity yields
\* None from get and IdNotFound from update, and the next add returns
\* identity 0.
C14_ClearResets ==
    last.op = "clear" =>
        /\ Size = 0 /\ identityCount = 0 /\ Len(Cur.data_index) = 0
        /\ \A id \in Ids :
            /\ Get(id) = NoValue
            /\ \A v \in Values : Update(id, v).ret = IdNotFound
        /\ \A v \in Values :
            /\ kind = "Container" => Container_add(c, v).out = 0
            /\ kind = "ReferenceContainer" =>
                \A ref \in Refs : ReferenceContainer_add(r, v, ref).out = 0

\* clear() discarded at least one tombstone.
C14_Witness ==
    /\ last.op = "clear" /\ last.out >= 1

\* get(id) on a container s of the kind in use.
GetOf(s, id) ==
    IF kind = "Container" THEN Container_get(s, id) ELSE ReferenceContainer_get(s, id)

\* C15: for a live identity id, update(id, v) returns Ok and get(id) is then
\* Some(v); the update changes no identity table or index table entry, no
\* tag, not the live count, and no value but that of id.
C15_UpdateRoundTrip ==
    /\ \A id \in LiveIds, v \in Values :
        LET res == Update(id, v) IN
        /\ res.ret = Ok
        /\ GetOf(res.c, id) = v
        /\ res.c.id = Cur.id
        /\ res.c.data_index = Cur.data_index
        /\ Len(res.c.data) = Len(Cur.data)
        /\ kind = "ReferenceContainer" => res.c.reference = Cur.reference
        /\ \A j \in LiveIds \ {id} : GetOf(res.c, j) = Get(j)
    /\ (last.op = "update" /\ last.ret = Ok) => Get(last.id) = last.val

\* update succeeded on an identity that sits in another slot than the one
\* it was issued with, with a tombstone behind the live range.
C15_Witness ==
    /\ last.op = "update" /\ last.ret = Ok
    /\ Get(last.id) = last.val
    /\ position(Cur.id, last.id) # last.id
    /\ identityCount > liveCount

\* get_id_from_index(index) on the container in use.
GetIdFromIndex(index) ==
    IF kind = "Container" THEN Container_get_id_from_index(c, index)
    ELSE ReferenceContainer_get_id_from_index(r, index)

\* C16: get_id_from_index(slot) returns IndexOutOfBounds exactly when slot is
\* at or beyond the length of the identity table; below it, it returns the
\* identity stored at the slot: a live one below liveCount, and behind it
\* the removed identities, the most recently removed first.
C16_IdAtSlot ==
    \A slot \in Ids :
        LET res == GetIdFromIndex(slot) IN
        /\ res.ret = IndexOutOfBounds <=> slot >= identityCount
        /\ slot < identityCount => (res.ret = Ok /\ res.out = At(Cur.id, slot))
        /\ slot < liveCount => Get(res.out) # NoValue
        /\ (slot >= liveCount /\ slot < identityCount) =>
            (res.ret = Ok /\ slot - liveCount < Len(pool)
                /\ res.out = At(pool, slot - liveCount))

\* The call returned the identity of a tombstone slot that is not the first
\* one.
C16_Witness ==
    /\ last.op = "get_id_from_index" /\ last.ret = Ok
    /\ last.id > liveCount /\ liveCount >= 1
    /\ last.out = At(Cur.id, last.id)

\* C17: for every live identity i, data_index[i] is a slot below liveCount
\* and the identity stored at that slot is i.
C17_IndexTableConsistent ==
    \A i \in LiveIds :
        /\ InBounds(Cur.data_index, i)
        /\ At(Cur.data_index, i) >= 0
        /\ At(Cur.data_index, i) < liveCount
        /\ At(Cur.id, At(Cur.data_index, i)) = i

\* A remove moved the last live element into the slot of the removed one,
\* and the index table names the new slot.
C17_Witness ==
    /\ last.op = "remove" /\ last.ret = Ok
    /\ liveCount = 2 /\ identityCount = 3
    /\ \E j \in LiveIds : position(Cur.id, j) # j /\ At(Cur.data_index, j) # j

\* C18: identityCount >= liveCount in every state; the identity and index
\* tables have the same length, and no call but clear makes them shorter;
\* add always returns an identity (its final lookup never fails).
C18_TablesNeverShrink ==
    /\ [](/\ identityCount >= liveCount
          /\ Len(Cur.data_index) = Len(Cur.id)
          /\ last.op = "add" => (last.ret = Ok /\ last.out # None))
    /\ [][last'.op # "clear" =>
            /\ Len(c'.id) >= Len(c.id) /\ Len(c'.data_index) >= Len(c.data_index)
            /\ Len(r'.id) >= Len(r.id) /\ Len(r'.data_index) >= Len(r.data_index)]_vars

\* Every element was removed and the tables still hold MaxIds entries.
C18_Witness ==
    /\ last.op = "remove" /\ last.ret = Ok
    /\ liveCount = 0 /\ identityCount = MaxIds
    /\ Len(Cur.data_index) = MaxIds

\* C19: no identity occurs twice in the identity table: the live slots hold
\* pairwise different identities, no live identity is also a tombstone, and
\* the first-match scan finds every entry at its own slot.
C19_IdentitiesUnique ==
    /\ \A i \in 0..(identityCount - 1), j \in 0..(identityCount - 1) :
        i # j => At(Cur.id, i) # At(Cur.id, j)
    /\ LiveIds \cap TombstonesOf(Cur) = {}
    /\ \A i \in 0..(identityCount - 1) : position(Cur.id, At(Cur.id, i)) = i

\* An add recycled the last tombstone of a full table whose identities are
\* no longer in the order they were issued in.
C19_Witness ==
    /\ last.op = "add" /\ last.ret = Ok
    /\ liveCount = MaxIds /\ identityCount = MaxIds
    /\ At(Cur.id, 0) # 0
    /\ last.out # MaxIds - 1

\* C20: add recycles before it allocates, and recycles in LIFO order.  The
\* tombstone pool is empty exactly when liveCount = identityCount, and only
\* then does add issue a new identity, equal to identityCount; otherwise it
\* returns the most recently removed identity that has not been handed out
\* again (so k removes r1..rk followed by k adds return rk, ..., r1).
\* identityCount is always the largest liveCount reached since the last
\* clear.
C20_RecycleLifo ==
    /\ [](/\ identityCount = highWater
          /\ Len(pool) = identityCount - liveCount)
    /\ [][last'.op = "add" =>
            IF pool = <<>>
            THEN /\ liveCount = identityCount
                 /\ last'.out = identityCount
                 /\ identityCount' = identityCount + 1
            ELSE /\ liveCount < identityCount
                 /\ last'.out = Head(pool)
                 /\ identityCount' = identityCount]_vars

\* Of two tombstones an add handed out one, and the other one, removed
\* earlier, is still waiting.
C20_Witness ==
    /\ last.op = "add" /\ last.ret = Ok
    /\ Len(pool) = 1 /\ identityCount = MaxIds
    /\ last.out # Head(pool)
    /\ Get(Head(pool)) = NoValue

\* C21: the reference array of the ReferenceContainer is as long as its data
\* array, and the tag at each live slot is the tag passed to the add that
\* returned the identity now stored at that slot; exactly the live
\* identities have such a tag.  A remove that moves the last element into
\* the freed slot moves its tag with it, so every surviving identity keeps
\* its own tag.
C21_TagsInLockStep ==
    /\ Len(r.reference) = Len(r.data)
    /\ \A i \in 0..(Len(r.data) - 1) :
        /\ InBounds(r.id, i)
        /\ At(r.reference, i) \in Refs
        /\ At(r.reference, i) = tagOfAdd[At(r.id, i)]
    /\ kind = "ReferenceContainer" =>
        \A id \in Ids : tagOfAdd[id] # None <=> id \in LiveIdsOf(r)

\* A remove moved the last element, whose tag differs from its neighbour's,
\* into slot 0.
C21_Witness ==
    /\ last.op = "remove" /\ last.ret = Ok
    /\ Len(r.data) >= 2
    /\ At(r.id, 0) = Len(r.data)
    /\ At(r.reference, 0) # At(r.reference, 1)
    /\ tagOfAdd[last.id] = None

\* ------------------------------------- the same calls on both containers
\* Both containers are constructed empty; every call below is made on the
\* Container and on the ReferenceContainer with the same arguments (add with
\* an arbitrary tag); sort, which the Container has not, is never called.
\* `last` records the Container's call and `lastRef` the ReferenceContainer's.
\* A panic of either ends the run.
RunningBoth == last.ret # Panic /\ lastRef.ret # Panic

InitBoth ==
    /\ kind = "Both"
    /\ c = Container_new
    /\ r = ReferenceContainer_new
    /\ last = Call("new", None, NoValue, None, Ok, None, NoValue)
    /\ lastRef = Call("new", None, NoValue, None, Ok, None, NoValue)
    /\ removed = {}
    /\ addRun = 0
    /\ pool = <<>>
    /\ highWater = 0
    /\ count = 0
    /\ tagOfAdd = [id \in Ids |-> None]

\* container.add(data); reference_container.add(data, reference)
BothAdd(data, reference) ==
    /\ RunningBoth /\ kind = "Both"
    /\ Len(c.data) < MaxIds /\ Len(r.data) < MaxIds
    /\ LET resC == Container_add(c, data)
           resR == ReferenceContainer_add(r, data, reference)
       IN
        /\ c' = resC.c
        /\ r' = resR.c
        /\ last' = Call("add", None, data, None, resC.ret, resC.out, NoValue)
        /\ lastRef' = Call("add", None, data, reference, resR.ret, resR.out,
                           NoValue)
    /\ UNCHANGED <<kind, removed, addRun, pool, highWater, count, tagOfAdd>>

\* container.remove(id); reference_container.remove(id)
BothRemove(id) ==
    /\ RunningBoth /\ kind = "Both"
    /\ LET resC == Container_remove(c, id)
           resR == ReferenceContainer_remove(r, id)
       IN
        /\ c' = resC.c
        /\ r' = resR.c
        /\ last' = Call("remove", id, NoValue, None, resC.ret, None, NoValue)
        /\ lastRef' = Call("remove", id, NoValue, None, resR.ret, None, NoValue)
    /\ UNCHANGED <<kind, removed, addRun, pool, highWater, count, tagOfAdd>>

\* container.update(id, new_data); reference_container.update(id, new_data)
BothUpdate(id, new_data) ==
    /\ RunningBoth /\ kind = "Both"
    /\ LET resC == Container_update(c, id, new_data)
           resR == ReferenceContainer_update(r, id, new_data)
       IN
        /\ c' = resC.c
        /\ r' = resR.c
        /\ last' = Call("update", id, new_data, None, resC.ret, None, NoValue)
        /\ lastRef' = Call("update", id, new_data, None, resR.ret, None, NoValue)
    /\ UNCHANGED <<kind, removed, addRun, pool, highWater, count, tagOfAdd>>

\* container.get(id); reference_container.get(id)
BothGet(id) ==
    /\ RunningBoth /\ kind = "Both"
    /\ LET vC == Container_get(c, id)
           vR == ReferenceContainer_get(r, id)
       IN
        /\ last' = Call("get", id, NoValue, None,
                        IF vC = NoValue THEN "None" ELSE "Some", None, vC)
        /\ lastRef' = Call("get", id, NoValue, None,
                           IF vR = NoValue THEN "None" ELSE "Some", None, vR)
    /\ UNCHANGED <<kind, c, r, removed, addRun, pool, highWater, count, tagOfAdd>>

\* container.get_id_from_index(index); reference_container.get_id_from_index(index)
BothGetIdFromIndex(index) ==
    /\ RunningBoth /\ kind = "Both"
    /\ LET resC == Container_get_id_from_index(c, index)
           resR == ReferenceContainer_get_id_from_index(r, index)
       IN
        /\ last' = Call("get_id_from_index", index, NoValue, None, resC.ret,
                        resC.out, NoValue)
        /\ lastRef' = Call("get_id_from_index", index, NoValue, None, resR.ret,
                           resR.out, NoValue)
    /\ UNCHANGED <<kind, c, r, removed, addRun, pool, highWater, count, tagOfAdd>>

\* container.size(); reference_container.size()
BothSize ==
    /\ RunningBoth /\ kind = "Both"
    /\ last' = Call("size", None, NoValue, None, Ok, Container_size(c), NoValue)
    /\ lastRef' = Call("size", None, NoValue, None, Ok,
                       ReferenceContainer_size(r), NoValue)
    /\ UNCHANGED <<kind, c, r, removed, addRun, pool, highWater, count, tagOfAdd>>

\* container.empty(); reference_container.empty()
BothEmpty ==
    /\ RunningBoth /\ kind = "Both"
    /\ last' = Call("empty", None, NoValue, None,
                    IF Container_empty(c) THEN "true" ELSE "false", None, NoValue)
    /\ lastRef' = Call("empty", None, NoValue, None,
                       IF ReferenceContainer_empty(r) THEN "true" ELSE "false",
                       None, NoValue)
    /\ UNCHANGED <<kind, c, r, removed, addRun, pool, highWater, count, tagOfAdd>>

\* container.clear(); reference_container.clear()
BothClear ==
    /\ RunningBoth /\ kind = "Both"
    /\ c' = Container_clear(c)
    /\ r' = ReferenceContainer_clear(r)
    /\ last' = Call("clear", None, NoValue, None, Ok, Len(c.id) - Len(c.data),
                    NoValue)
    /\ lastRef' = Call("clear", None, NoValue, None, Ok, Len(r.id) - Len(r.data),
                       NoValue)
    /\ UNCHANGED <<kind, removed, addRun, pool, highWater, count, tagOfAdd>>

NextBoth ==
    \/ \E data \in Values, reference \in Refs : BothAdd(data, reference)
    \/ \E id \in Ids : BothRemove(id)
    \/ \E id \in Ids, new_data \in Values : BothUpdate(id, new_data)
    \/ \E id \in Ids : BothGet(id)
    \/ \E index \in Ids : BothGetIdFromIndex(index)
    \/ BothSize
    \/ BothEmpty
    \/ BothClear

SpecBoth == InitBoth /\ [][NextBoth]_vars

\* C22: the ReferenceContainer refines the Container.  After any sequence
\* of add/remove/update/get/get_id_from_index/size/empty/clear calls made on
\* both from empty (tags arbitrary, no sort), the two calls of every step gave
\* the same result (the same error, identity, count or value, or both
\* panicked), the identity, index and data tables are the same, and every
\* get/update/remove/get_id_from_index/size/empty that could be called next
\* gives the same on both, whatever the tags are.
C22_ReferenceContainerRefinesContainer ==
    kind = "Both" =>
        /\ r.id = c.id /\ r.data_index = c.data_index /\ r.data = c.data
        /\ lastRef.op = last.op /\ lastRef.id = last.id /\ lastRef.val = last.val
        /\ lastRef.ret = last.ret /\ lastRef.out = last.out
        /\ lastRef.outVal = last.outVal
        /\ \A id \in Ids :
            /\ ReferenceContainer_get(r, id) = Container_get(c, id)
            /\ ReferenceContainer_remove(r, id).ret = Container_remove(c, id).ret
            /\ ReferenceContainer_get_id_from_index(r, id)
                   = Container_get_id_from_index(c, id)
            /\ \A v \in Values :
                ReferenceContainer_update(r, id, v).ret = Container_update(c, id, v).ret
        /\ \A v \in Values, tag \in Refs :
            Len(r.data) < MaxIds =>
                /\ ReferenceContainer_add(r, v, tag).ret = Container_add(c, v).ret
                /\ ReferenceContainer_add(r, v, tag).out = Container_add(c, v).out
        /\ ReferenceContainer_size(r) = Container_size(c)
        /\ ReferenceContainer_empty(r) <=> Container_empty(c)

\* Both containers recycled an identity in a full table, the
\* ReferenceContainer holding two different tags and giving the recycled
\* identity the larger one.
C22_Witness ==
    /\ kind = "Both"
    /\ last.op = "add" /\ last.ret = Ok /\ lastRef.ret = Ok
    /\ Len(c.id) = MaxIds /\ Len(c.data) = MaxIds
    /\ last.out # MaxIds - 1
    /\ lastRef.ref = 1
    /\ \E i \in 0..(Len(r.reference) - 1) : At(r.reference, i) = 0

====
